---- MODULE Spec2Model ----
(***************************************************************************)
(* Airport Asset Management API: the authentication and access-control     *)
(* subsystem (login, token codec, user management) and the protected      *)
(* asset routes, as a state machine over the user table, the asset table, *)
(* the tokens issued so far, the clock and the rate limiter.               *)
(*                                                                         *)
(* Optional[T] values of the code are modelled as sets of at most one     *)
(* element ({} is None); a raised HTTPException is a response record.     *)
(***************************************************************************)
EXTENDS Integers, Sequences, FiniteSets, TLC

VARIABLES users, nextUserId, tokens, now, assets, limiter, call, inflight

vars == <<users, nextUserId, tokens, now, assets, limiter, call, inflight>>

-----------------------------------------------------------------------------
(* Bounds of the model *)

\* user ids the sequence of the users table may hand out
MaxUserId == 2
\* tokens issued by login that clients still hold
MaxTokens == 2
\* minutes the clock runs past the start
MaxElapsed == 2

-----------------------------------------------------------------------------
(* app/models/user.py, app/models/asset.py: enumerations *)

ADMIN == "admin"
MANAGER == "manager"
STAFF == "staff"
VIEWER == "viewer"
UserRole == {ADMIN, MANAGER, STAFF, VIEWER}

AVAILABLE == "Available"
IN_USE == "In Use"
NEEDS_REPAIR == "Needs Repair"
UNKNOWN == "Unknown"
AssetStatus == {AVAILABLE, IN_USE, NEEDS_REPAIR, UNKNOWN}

-----------------------------------------------------------------------------
(* app/core/config.py, app/core/security.py: settings *)

SECRET_KEY == "secret_key"
ACCESS_TOKEN_EXPIRE_MINUTES == 1
BCRYPT_MAX_PASSWORD_BYTES == 72

-----------------------------------------------------------------------------
(* Credential hasher, app/core/security.py.  A password is a sequence of   *)
(* code points; str.encode('utf-8') yields one byte for a code point below *)
(* 128 and two bytes for a code point below 2048.                          *)

utf8(c) == IF c < 128 THEN <<c>> ELSE <<192 + (c \div 64), 128 + (c % 64)>>

RECURSIVE encode(_)
encode(s) == IF Len(s) = 0 THEN <<>> ELSE utf8(Head(s)) \o encode(Tail(s))

truncate(password_bytes) ==
    IF Len(password_bytes) > BCRYPT_MAX_PASSWORD_BYTES
    THEN SubSeq(password_bytes, 1, BCRYPT_MAX_PASSWORD_BYTES)
    ELSE password_bytes

\* bcrypt.hashpw: a salted one-way digest; the digest is kept symbolically
hashpw(password_bytes, salt) == [salt |-> salt, digest |-> password_bytes]

\* a stored value that is no bcrypt hash has no salt to read
MalformedHash == [salt |-> "", digest |-> <<>>]

\* bcrypt.checkpw raises ValueError("Invalid salt") for such a value
checkpw_error(password_bytes, hashed) ==
    IF hashed.salt = "" THEN "ValueError" ELSE ""

\* bcrypt.checkpw: re-hash with the salt of the stored hash and compare
checkpw(password_bytes, hashed) == hashpw(password_bytes, hashed.salt) = hashed

get_password_hash(plain_password, salt) ==
    hashpw(truncate(encode(plain_password)), salt)

\* verify_password comparing the bytes as they are
verify_password_no_truncation(plain_password, hashed_password) ==
    checkpw(encode(plain_password), hashed_password)

verify_password(plain_password, hashed_password) ==
    checkpw(truncate(encode(plain_password)), hashed_password)

\* the exception verify_password lets through ("" when it returns)
verify_password_error(plain_password, hashed_password) ==
    checkpw_error(truncate(encode(plain_password)), hashed_password)

-----------------------------------------------------------------------------
(* Token codec, app/core/security.py.  A token is its payload (a sequence  *)
(* holding the claims; the empty sequence is an unparseable token) and the *)
(* key it was signed with.                                                 *)

\* create_access_token taking the lifetime for the expiry instant
create_access_token_exp_is_ttl(data, expires_delta, clock) ==
    LET expire == IF Len(expires_delta) > 0 /\ expires_delta[1] # 0
                  THEN expires_delta[1]
                  ELSE ACCESS_TOKEN_EXPIRE_MINUTES
    IN  [payload |-> <<[sub |-> data.sub, user_id |-> data.user_id,
                        role |-> data.role, exp |-> expire]>>,
         sig |-> SECRET_KEY]

create_access_token(data, expires_delta, clock) ==
    LET expire == IF Len(expires_delta) > 0 /\ expires_delta[1] # 0
                  THEN clock + expires_delta[1]
                  ELSE clock + ACCESS_TOKEN_EXPIRE_MINUTES
    IN  [payload |-> <<[sub |-> data.sub, user_id |-> data.user_id,
                        role |-> data.role, exp |-> expire]>>,
         sig |-> SECRET_KEY]

\* jose's jwt.decode: the error it raises ("" when it returns the payload).
\* A token that does not parse and a signature made with another key raise
\* JWTError; an exp before the clock raises ExpiredSignatureError, a subclass
\* of JWTError.
jwt_decode_error(token, key, clock) ==
    IF Len(token.payload) = 0 THEN "JWTError"
    ELSE IF token.sig # key THEN "JWTError"
    ELSE IF token.payload[1].exp < clock THEN "ExpiredSignatureError"
    ELSE ""

\* decode_access_token letting an expired token through
decode_access_token_keeps_expired(token, clock) ==
    IF jwt_decode_error(token, SECRET_KEY, clock) \in {"", "ExpiredSignatureError"}
    THEN {token.payload[1]}
    ELSE {}

\* decode_access_token without the check of the signature
decode_access_token_unsigned(token, clock) ==
    IF jwt_decode_error(token, token.sig, clock) # "" THEN {}
    ELSE {token.payload[1]}

\* decode_access_token refusing a token whose subject is not stored and active
decode_access_token_checks_store(token, clock) ==
    IF jwt_decode_error(token, SECRET_KEY, clock) # "" THEN {}
    ELSE IF \A u \in users : u.username # token.payload[1].sub \/ ~u.is_active
    THEN {}
    ELSE {token.payload[1]}

\* except JWTError: every error of jwt.decode becomes None
decode_access_token(token, clock) ==
    IF jwt_decode_error(token, SECRET_KEY, clock) # "" THEN {}
    ELSE {token.payload[1]}

-----------------------------------------------------------------------------
(* User store, app/crud/user.py.  db is the users table: a set of rows     *)
(* [id, username, hashed_password, role, is_active].  first_name,          *)
(* last_name, created_at and updated_at are columns no decision reads and  *)
(* are left out of the rows.                                               *)

the(S) == CHOOSE x \in S : TRUE

\* .first() of the filtered query: None or the row with that name
get_user_by_username(db, username) ==
    LET rows == {u \in db : u.username = username}
    IN  IF rows = {} THEN {} ELSE {the(rows)}

get_user(db, user_id) ==
    LET rows == {u \in db : u.id = user_id}
    IN  IF rows = {} THEN {} ELSE {the(rows)}

\* create_user without the check for an existing name
create_user_no_check(db, next_id, user, salt) ==
    LET db_user == [id |-> next_id,
                    username |-> user.username,
                    hashed_password |-> get_password_hash(user.password, salt),
                    role |-> user.role,
                    is_active |-> user.is_active]
    IN  [error |-> "", db |-> db \cup {db_user},
         next_id |-> next_id + 1, user |-> {db_user}]

\* the result carries the ValueError (error # "") or the new table
create_user(db, next_id, user, salt) ==
    IF get_user_by_username(db, user.username) # {}
    THEN [error |-> "Username already registered", db |-> db,
          next_id |-> next_id, user |-> {}]
    ELSE LET db_user == [id |-> next_id,
                         username |-> user.username,
                         hashed_password |-> get_password_hash(user.password, salt),
                         role |-> user.role,
                         is_active |-> user.is_active]
         IN  [error |-> "", db |-> db \cup {db_user},
              next_id |-> next_id + 1, user |-> {db_user}]

\* unique=True of the username column: the table takes no second row of a name
username_unique(db, db_user) == \A u \in db : u.username # db_user.username

\* create_user from the hashing on, for a call whose existence check has
\* passed: db.commit() raises IntegrityError if the name has been taken since
create_user_commit(db, next_id, user, salt) ==
    LET db_user == [id |-> next_id,
                    username |-> user.username,
                    hashed_password |-> get_password_hash(user.password, salt),
                    role |-> user.role,
                    is_active |-> user.is_active]
    IN  IF ~username_unique(db, db_user)
        THEN [error |-> "IntegrityError", db |-> db,
              next_id |-> next_id, user |-> {}]
        ELSE [error |-> "", db |-> db \cup {db_user},
              next_id |-> next_id + 1, user |-> {db_user}]

\* the query of get_user_by_username raises when the store is out of reach
get_user_by_username_error(available) ==
    IF available THEN "" ELSE "OperationalError"

\* authenticate_user with a try/except around its body
authenticate_user_error_caught(available, db, username, password) == ""

\* the exception that leaves authenticate_user ("" if none): nothing in it
\* catches what the lookup or verify_password raises
authenticate_user_error(available, db, username, password) ==
    IF get_user_by_username_error(available) # ""
    THEN get_user_by_username_error(available)
    ELSE LET user == get_user_by_username(db, username)
         IN  IF user = {} THEN ""
             ELSE verify_password_error(password, the(user).hashed_password)

\* authenticate_user without the password check
authenticate_user_skips_password(db, username, password) ==
    LET user == get_user_by_username(db, username)
    IN  IF user = {} THEN {}
        ELSE IF ~the(user).is_active THEN {}
        ELSE user

\* authenticate_user without the check of the active flag
authenticate_user_ignores_active(db, username, password) ==
    LET user == get_user_by_username(db, username)
    IN  IF user = {} THEN {}
        ELSE IF ~verify_password(password, the(user).hashed_password) THEN {}
        ELSE user

authenticate_user(db, username, password) ==
    LET user == get_user_by_username(db, username)
    IN  IF user = {} THEN {}
        ELSE IF ~verify_password(password, the(user).hashed_password) THEN {}
        ELSE IF ~the(user).is_active THEN {}
        ELSE user

\* user_update is model_dump(exclude_unset=True): a function from the fields
\* that were sent to their values; setattr overwrites exactly those
update_user(db, user_id, user_update) ==
    LET db_user == get_user(db, user_id)
    IN  IF db_user = {} THEN [db |-> db, user |-> {}]
        ELSE LET old == the(db_user)
                 new == [f \in DOMAIN old |->
                            IF f \in DOMAIN user_update THEN user_update[f] ELSE old[f]]
             IN  [db |-> (db \ {old}) \cup {new}, user |-> {new}]

delete_user(db, user_id) ==
    LET db_user == get_user(db, user_id)
    IN  IF db_user = {} THEN [db |-> db, deleted |-> FALSE]
        ELSE [db |-> db \ db_user, deleted |-> TRUE]

get_all_users(db) == db

-----------------------------------------------------------------------------
(* Asset store, app/crud/asset.py.  tbl is the Assets table: a set of rows *)
(* [id, name, description, status, location, asset_type].                  *)

AssetColumns == {"id", "name", "description", "status", "location", "asset_type"}

get_asset(tbl, asset_id) ==
    LET rows == {a \in tbl : a.id = asset_id}
    IN  IF rows = {} THEN {} ELSE {the(rows)}

get_assets(tbl, skip, limit) == tbl

\* Asset(**asset.model_dump()): the declarative constructor raises TypeError
\* for a keyword that is no attribute of the mapped class; the schema dumps
\* the key "type" while the column is asset_type
create_asset(tbl, next_id, asset) ==
    IF DOMAIN asset \subseteq AssetColumns
    THEN LET db_asset == [f \in AssetColumns |->
                             IF f = "id" THEN next_id
                             ELSE IF f \in DOMAIN asset THEN asset[f] ELSE "None"]
         IN  [error |-> "", tbl |-> tbl \cup {db_asset}, asset |-> {db_asset}]
    ELSE [error |-> "TypeError", tbl |-> tbl, asset |-> {}]

\* setattr of a key that is no column sets a plain attribute of the object:
\* the row is not changed by it
update_asset(tbl, asset_id, asset_update) ==
    LET db_asset == get_asset(tbl, asset_id)
    IN  IF db_asset = {} THEN [tbl |-> tbl, asset |-> {}]
        ELSE LET old == the(db_asset)
                 new == [f \in DOMAIN old |->
                            IF f \in DOMAIN asset_update THEN asset_update[f] ELSE old[f]]
             IN  [tbl |-> (tbl \ {old}) \cup {new}, asset |-> {new}]

delete_asset(tbl, asset_id) ==
    LET db_asset == get_asset(tbl, asset_id)
    IN  IF db_asset = {} THEN [tbl |-> tbl, deleted |-> FALSE]
        ELSE [tbl |-> tbl \ db_asset, deleted |-> TRUE]

-----------------------------------------------------------------------------
(* Responses and the Authorization header *)

Response(status, detail, headers) ==
    [status |-> status, detail |-> detail, headers |-> headers]

NoHeaders == {}
WWWAuthenticate == {<<"WWW-Authenticate", "Bearer">>}

MalformedToken == [payload |-> <<>>, sig |-> ""]
NoAuthorization == [scheme |-> "", token |-> MalformedToken]
Bearer(token) == [scheme |-> "Bearer", token |-> token]

-----------------------------------------------------------------------------
(* Authorization decision engine, app/core/auth.py.  Each dependency       *)
(* returns the current user or the response it raises.                     *)

Unauthenticated ==
    [resp |-> Response(401, "Could not validate credentials", WWWAuthenticate),
     user |-> {}]
Forbidden(detail) == [resp |-> Response(403, detail, NoHeaders), user |-> {}]
Allowed(user) == [resp |-> Response(200, "", NoHeaders), user |-> user]

\* the bearer token is verified and its subject is looked up in the store
get_current_user(authorization) ==
    IF authorization.scheme # "Bearer" THEN Unauthenticated
    ELSE LET claims == decode_access_token(authorization.token, now)
         IN  IF claims = {} THEN Unauthenticated
             ELSE LET user == get_user_by_username(users, the(claims).sub)
                  IN  IF user = {} THEN Unauthenticated ELSE Allowed(user)

\* authorize: an inactive principal is denied
get_current_active_user(authorization) ==
    LET r == get_current_user(authorization)
    IN  IF r.user = {} THEN r
        ELSE IF ~the(r.user).is_active THEN Forbidden("Inactive user")
        ELSE r

\* authorize: Allow iff the principal is active and its role is in the set
require_role(allowed_roles, authorization) ==
    LET r == get_current_active_user(authorization)
    IN  IF r.user = {} THEN r
        ELSE IF the(r.user).role \notin allowed_roles
             THEN Forbidden("Not enough permissions")
        ELSE r

-----------------------------------------------------------------------------
(* Request admission, app/core/limiter.py and the limiter.limit decorators *)
(* of the routes.  limiter.storage maps <<endpoint, caller key>> to the    *)
(* hits counted in the current window and the instant the window ends; a   *)
(* quota is [amount, window], the window in minutes of the clock.          *)

\* get_remote_address: the origin of the request
CallerKeys == {"testclient"}

\* the routes without a limiter.limit decorator
UnlimitedEndpoints == {"get_current_user_info", "get_users", "read_root", "health_check"}

LimitedEndpoints ==
    {"register", "login", "delete_user", "update_user", "delete_user_by_id",
     "get_assets", "get_asset", "create_asset", "update_asset", "delete_asset"}

NoHits == [count |-> 0, expiry |-> 0]
EmptyStorage == [key \in LimitedEndpoints \X CallerKeys |-> NoHits]

register_limit == [amount |-> 30, window |-> 60]
\* login with a quota of six
login_limit_six == [amount |-> 6, window |-> 1]

login_limit == [amount |-> 5, window |-> 1]
delete_user_limit == [amount |-> 10, window |-> 1]
update_user_limit == [amount |-> 30, window |-> 1]
delete_user_by_id_limit == [amount |-> 10, window |-> 1]
get_assets_limit == [amount |-> 100, window |-> 1]
get_asset_limit == [amount |-> 100, window |-> 1]
\* create_asset without a quota worth the name
create_asset_limit_off == [amount |-> 1000, window |-> 1]

create_asset_limit == [amount |-> 20, window |-> 1]
update_asset_limit == [amount |-> 30, window |-> 1]
delete_asset_limit == [amount |-> 10, window |-> 1]

\* the entry of a key, forgotten once its window has ended
live_hits(storage, key, clock) ==
    IF storage[key].count > 0 /\ storage[key].expiry > clock
    THEN storage[key]
    ELSE NoHits

\* admit(endpoint_class, caller_key): Admitted while the window holds fewer
\* than `amount` hits, and the hit is counted; Throttled otherwise, and the
\* quota is not consumed further.  The first hit of a window sets its end.
admit(storage, key, quota, clock) ==
    LET hits == live_hits(storage, key, clock)
    IN  IF hits.count >= quota.amount
        THEN [admitted |-> FALSE, storage |-> storage]
        ELSE [admitted |-> TRUE,
              storage |-> [storage EXCEPT ![key] =
                              [count |-> hits.count + 1,
                               expiry |-> IF hits.count = 0
                                          THEN clock + quota.window
                                          ELSE hits.expiry]]]

\* the wrapper that limiter.limit puts around the endpoint function: FastAPI
\* calls it once the dependencies of the route have been resolved, so a
\* request that a dependency answers never reaches the check
limit(dependencies_resolved, endpoint, caller_key, quota) ==
    IF ~dependencies_resolved \/ ~limiter.enabled
    THEN [admitted |-> TRUE, storage |-> limiter.storage]
    ELSE admit(limiter.storage, <<endpoint, caller_key>>, quota, now)

\* the worker threads that run the handlers (plain def functions) side by
\* side; inflight[c] is the request thread c is in the middle of
Clients == {"c1", "c2"}

Idle == [op |-> "idle"]

\* the windows updated without mutual exclusion
window_lock_ignored(key) == TRUE

\* the mutex of a window: a request reads the counter of its key only while
\* no other request is between its read of that counter and its write
window_lock_free(key) ==
    \A c \in Clients : inflight[c].op = "admit" => inflight[c].key # key

\* the second half of admit, for a request that has read `hits` as the entry
\* of its key: the verdict, and the entry written back if it is admitted
admit_write(storage, key, hits, quota, clock) ==
    LET w == admit([storage EXCEPT ![key] = hits], key, quota, clock)
    IN  [admitted |-> w.admitted,
         storage |-> IF w.admitted
                     THEN [storage EXCEPT ![key] = w.storage[key]]
                     ELSE storage]

\* throttled requests answered as forbidden
RateLimitExceeded_forbidden == Response(403, "Rate limit exceeded", NoHeaders)

\* slowapi's _rate_limit_exceeded_handler
RateLimitExceeded == Response(429, "Rate limit exceeded", NoHeaders)

-----------------------------------------------------------------------------
(* Routes of app/api/routes/auth.py.  A handler is an operator of the      *)
(* current state and the request; it yields the response and the tables    *)
(* as the handler leaves them.                                             *)

\* register depending on get_current_user instead
register_current_user_any(authorization) == get_current_user(authorization)

register_current_user(authorization) == get_current_active_user(authorization)

\* register without the role check
route_register_no_role_check(authorization, user, salt) ==
    LET dep == register_current_user(authorization)
    IN  IF dep.user = {}
        THEN [resp |-> dep.resp, users |-> users, nextUserId |-> nextUserId]
        ELSE LET c == create_user(users, nextUserId, user, salt)
             IN  IF c.error # ""
                 THEN [resp |-> Response(400, c.error, NoHeaders),
                       users |-> users, nextUserId |-> nextUserId]
                 ELSE [resp |-> Response(201, "", NoHeaders),
                       users |-> c.db, nextUserId |-> c.next_id]

route_register(authorization, user, salt) ==
    LET dep == register_current_user(authorization)
    IN  IF dep.user = {}
        THEN [resp |-> dep.resp, users |-> users, nextUserId |-> nextUserId]
        ELSE IF the(dep.user).role # ADMIN
        THEN [resp |-> Response(403, "Only admin can register new users", NoHeaders),
              users |-> users, nextUserId |-> nextUserId]
        ELSE LET c == create_user(users, nextUserId, user, salt)
             IN  IF c.error # ""
                 THEN [resp |-> Response(400, c.error, NoHeaders),
                       users |-> users, nextUserId |-> nextUserId]
                 ELSE [resp |-> Response(201, "", NoHeaders),
                       users |-> c.db, nextUserId |-> c.next_id]

\* register from the call of create_user on, for a call whose existence
\* check has passed: `except ValueError` lets every other exception through
register_commit(user, salt) ==
    LET c == create_user_commit(users, nextUserId, user, salt)
    IN  IF c.error = ""
        THEN [resp |-> Response(201, "", NoHeaders),
              users |-> c.db, nextUserId |-> c.next_id]
        ELSE IF c.error = "Username already registered"
        THEN [resp |-> Response(400, c.error, NoHeaders),
              users |-> users, nextUserId |-> nextUserId]
        ELSE [resp |-> Response(500, "Internal Server Error", NoHeaders),
              users |-> users, nextUserId |-> nextUserId]

\* login telling an unknown name from a wrong password
route_login_reveals_unknown(username, password) ==
    LET user == authenticate_user(users, username, password)
    IN  IF get_user_by_username(users, username) = {}
        THEN [resp |-> Response(404, "User not found", NoHeaders), token |-> {}]
        ELSE IF user = {}
        THEN [resp |-> Response(401, "Incorrect username or password", WWWAuthenticate),
              token |-> {}]
        ELSE [resp |-> Response(200, "", NoHeaders),
              token |-> {create_access_token(
                            [sub |-> the(user).username, user_id |-> the(user).id,
                             role |-> the(user).role],
                            <<ACCESS_TOKEN_EXPIRE_MINUTES>>, now)}]

route_login(username, password) ==
    LET user == authenticate_user(users, username, password)
    IN  IF user = {}
        THEN [resp |-> Response(401, "Incorrect username or password", WWWAuthenticate),
              token |-> {}]
        ELSE [resp |-> Response(200, "", NoHeaders),
              token |-> {create_access_token(
                            [sub |-> the(user).username, user_id |-> the(user).id,
                             role |-> the(user).role],
                            <<ACCESS_TOKEN_EXPIRE_MINUTES>>, now)}]

\* login over a store that may be out of reach: login catches nothing that
\* authenticate_user raises
login_over(available, username, password) ==
    IF authenticate_user_error(available, users, username, password) # ""
    THEN [resp |-> Response(500, "Internal Server Error", NoHeaders), token |-> {}]
    ELSE route_login(username, password)

me_current_user(authorization) == get_current_active_user(authorization)

route_get_current_user_info(authorization) ==
    LET dep == me_current_user(authorization)
    IN  [resp |-> dep.resp]

delete_user_current_user(authorization) == get_current_active_user(authorization)

\* delete_user without the check for the caller's own id
route_delete_user_no_self_check(authorization, user_id) ==
    LET dep == delete_user_current_user(authorization)
    IN  IF dep.user = {} THEN [resp |-> dep.resp, users |-> users]
        ELSE IF the(dep.user).role # ADMIN
        THEN [resp |-> Response(403, "Only admin can delete users", NoHeaders),
              users |-> users]
        ELSE LET d == delete_user(users, user_id)
             IN  IF ~d.deleted
                 THEN [resp |-> Response(404, "User not found", NoHeaders),
                       users |-> users]
                 ELSE [resp |-> Response(204, "", NoHeaders), users |-> d.db]

\* delete_user answering the caller's own id with 403
route_delete_user_self_403(authorization, user_id) ==
    LET dep == delete_user_current_user(authorization)
    IN  IF dep.user = {} THEN [resp |-> dep.resp, users |-> users]
        ELSE IF the(dep.user).role # ADMIN
        THEN [resp |-> Response(403, "Only admin can delete users", NoHeaders),
              users |-> users]
        ELSE IF the(dep.user).id = user_id
        THEN [resp |-> Response(403, "Cannot delete your own account", NoHeaders),
              users |-> users]
        ELSE LET d == delete_user(users, user_id)
             IN  IF ~d.deleted
                 THEN [resp |-> Response(404, "User not found", NoHeaders),
                       users |-> users]
                 ELSE [resp |-> Response(204, "", NoHeaders), users |-> d.db]

route_delete_user(authorization, user_id) ==
    LET dep == delete_user_current_user(authorization)
    IN  IF dep.user = {} THEN [resp |-> dep.resp, users |-> users]
        ELSE IF the(dep.user).role # ADMIN
        THEN [resp |-> Response(403, "Only admin can delete users", NoHeaders),
              users |-> users]
        ELSE IF the(dep.user).id = user_id
        THEN [resp |-> Response(400, "Cannot delete your own account", NoHeaders),
              users |-> users]
        ELSE LET d == delete_user(users, user_id)
             IN  IF ~d.deleted
                 THEN [resp |-> Response(404, "User not found", NoHeaders),
                       users |-> users]
                 ELSE [resp |-> Response(204, "", NoHeaders), users |-> d.db]

get_users_current_user(authorization) == get_current_active_user(authorization)

\* get_users answering a caller that is no admin with 401
route_get_users_401(authorization) ==
    LET dep == get_users_current_user(authorization)
    IN  IF dep.user = {} THEN [resp |-> dep.resp]
        ELSE IF the(dep.user).role # ADMIN
        THEN [resp |-> Response(401, "Only admin can get users", NoHeaders)]
        ELSE [resp |-> Response(200, "", NoHeaders)]

\* get_users without the role check
route_get_users_any_role(authorization) ==
    LET dep == get_users_current_user(authorization)
    IN  IF dep.user = {} THEN [resp |-> dep.resp]
        ELSE [resp |-> Response(200, "", NoHeaders)]

route_get_users(authorization) ==
    LET dep == get_users_current_user(authorization)
    IN  IF dep.user = {} THEN [resp |-> dep.resp]
        ELSE IF the(dep.user).role # ADMIN
        THEN [resp |-> Response(403, "Only admin can get users", NoHeaders)]
        ELSE [resp |-> Response(200, "", NoHeaders)]

update_user_roles == {ADMIN}

route_update_user(authorization, user_id, user_update) ==
    LET dep == require_role(update_user_roles, authorization)
    IN  IF dep.user = {} THEN [resp |-> dep.resp, users |-> users]
        ELSE LET u == update_user(users, user_id, user_update)
             IN  IF u.user = {}
                 THEN [resp |-> Response(404, "User not found", NoHeaders),
                       users |-> users]
                 ELSE [resp |-> Response(200, "", NoHeaders), users |-> u.db]

delete_user_by_id_roles == {ADMIN}

\* the second handler registered for DELETE /auth/users/{user_id}
route_delete_user_by_id(authorization, user_id) ==
    LET dep == require_role(delete_user_by_id_roles, authorization)
    IN  IF dep.user = {} THEN [resp |-> dep.resp, users |-> users]
        ELSE LET d == delete_user(users, user_id)
             IN  IF ~d.deleted
                 THEN [resp |-> Response(404, "User not found", NoHeaders),
                       users |-> users]
                 ELSE [resp |-> Response(204, "", NoHeaders), users |-> d.db]

-----------------------------------------------------------------------------
(* Routes of app/api/routes/assets.py *)

route_get_assets == [resp |-> Response(200, "", NoHeaders)]

get_asset_current_user(authorization) == get_current_active_user(authorization)

route_get_asset(authorization, asset_id) ==
    LET dep == get_asset_current_user(authorization)
    IN  IF dep.user = {} THEN [resp |-> dep.resp]
        ELSE IF get_asset(assets, asset_id) = {}
        THEN [resp |-> Response(404, "Asset not found", NoHeaders)]
        ELSE [resp |-> Response(200, "", NoHeaders)]

\* create open to every role
create_asset_roles_any == UserRole

create_asset_roles == {STAFF, MANAGER, ADMIN}

\* the id a new row would get from the table's sequence
next_asset_id == 1 + Cardinality(assets)

\* an exception that no handler catches is answered 500
route_create_asset(authorization, asset) ==
    LET dep == require_role(create_asset_roles, authorization)
    IN  IF dep.user = {} THEN [resp |-> dep.resp, assets |-> assets]
        ELSE LET c == create_asset(assets, next_asset_id, asset)
             IN  IF c.error # ""
                 THEN [resp |-> Response(500, "Internal Server Error", NoHeaders),
                       assets |-> assets]
                 ELSE [resp |-> Response(201, "", NoHeaders), assets |-> c.tbl]

update_asset_roles == {MANAGER, ADMIN}

route_update_asset(authorization, asset_id, asset_update) ==
    LET dep == require_role(update_asset_roles, authorization)
    IN  IF dep.user = {} THEN [resp |-> dep.resp, assets |-> assets]
        ELSE LET u == update_asset(assets, asset_id, asset_update)
             IN  IF u.asset = {}
                 THEN [resp |-> Response(404, "Asset not found", NoHeaders),
                       assets |-> assets]
                 ELSE [resp |-> Response(200, "", NoHeaders), assets |-> u.tbl]

delete_asset_roles == {ADMIN}

route_delete_asset(authorization, asset_id) ==
    LET dep == require_role(delete_asset_roles, authorization)
    IN  IF dep.user = {} THEN [resp |-> dep.resp, assets |-> assets]
        ELSE LET d == delete_asset(assets, asset_id)
             IN  IF ~d.deleted
                 THEN [resp |-> Response(404, "Asset not found", NoHeaders),
                       assets |-> assets]
                 ELSE [resp |-> Response(204, "", NoHeaders), assets |-> d.tbl]

-----------------------------------------------------------------------------
(* Routes of main.py *)

route_read_root == [resp |-> Response(200, "", NoHeaders)]

route_health_check == [resp |-> Response(200, "", NoHeaders)]

-----------------------------------------------------------------------------
(* Requests the clients send *)

Usernames == {"admin", "alice"}
LoginNames == Usernames \cup {"ghost"}

\* "pw12" and "pw99" as code points
SeedPassword == <<112, 119, 49, 50>>
OtherPassword == <<112, 119, 57, 57>>
Passwords == {SeedPassword, OtherPassword}

Salts == {"salt1"}

SeedAdmin ==
    [id |-> 1, username |-> "admin",
     hashed_password |-> get_password_hash(SeedPassword, "salt1"),
     role |-> ADMIN, is_active |-> TRUE]

\* the clock at the start: the seeded admin logged in at minute 0
StartTime == 2

\* the token of that login: correctly signed, and expired at the start
ExpiredToken ==
    create_access_token([sub |-> "admin", user_id |-> 1, role |-> ADMIN],
                        <<ACCESS_TOKEN_EXPIRE_MINUTES>>, 0)

\* a token signed with a key that is not the server's
ForgedToken ==
    [payload |-> <<[sub |-> "admin", user_id |-> 1, role |-> ADMIN,
                    exp |-> StartTime + ACCESS_TOKEN_EXPIRE_MINUTES]>>,
     sig |-> "other_key"]

InvalidAuthorizations ==
    {NoAuthorization, Bearer(MalformedToken), Bearer(ForgedToken), Bearer(ExpiredToken)}

Authorizations == InvalidAuthorizations \cup {Bearer(t) : t \in tokens}

UserCreates ==
    [username : Usernames, password : {SeedPassword}, role : UserRole,
     is_active : BOOLEAN]

\* the JSON bodies sent to PUT /auth/users/{user_id}; some name fields that
\* UserUpdate does not declare
UserUpdateBodies ==
    {[role |-> r] : r \in UserRole}
    \cup {[is_active |-> b] : b \in BOOLEAN}
    \cup {[role |-> r, is_active |-> b] : r \in UserRole, b \in BOOLEAN}
    \cup {[username |-> n] : n \in LoginNames}
    \cup {[id |-> i, is_active |-> TRUE] : i \in {1, 2}}

UserUpdateFields == {"first_name", "last_name", "role", "is_active"}

\* UserUpdate declaring every field of the body
UserUpdate_any_field(body) == body

\* the schema keeps the fields it declares and ignores the others;
\* model_dump(exclude_unset=True) holds those of them that were sent
UserUpdate(body) ==
    [f \in DOMAIN body \cap UserUpdateFields |-> body[f]]

UserUpdates == {UserUpdate(body) : body \in UserUpdateBodies}

UserIds == 1 .. (MaxUserId + 1)

SeedAsset ==
    [id |-> 1, name |-> "Scanner", description |-> "Gate scanner",
     status |-> AVAILABLE, location |-> "Terminal A", asset_type |-> "Gate Equipment"]

SeedAsset2 ==
    [id |-> 2, name |-> "Tow Bar", description |-> "None",
     status |-> UNKNOWN, location |-> "None", asset_type |-> "None"]

\* 3 is the id of no row
AssetIds == {1, 2, 3}

\* AssetCreate.model_dump(): every field of the schema, under the schema's names
AssetCreates ==
    {[name |-> "Tug", description |-> "None", status |-> UNKNOWN,
      location |-> "Apron", type |-> "Vehicle"]}

AssetUpdates ==
    {[name |-> "Scanner 2"],
     [status |-> IN_USE, location |-> "Terminal B"],
     [type |-> "Tool"]}

-----------------------------------------------------------------------------
(* The endpoints: the route behind its limiter.limit decorator.  The       *)
(* result carries the response, what the handler leaves and the storage    *)
(* of the limiter.                                                         *)

endpoint_register(caller_key, authorization, user, salt) ==
    LET w == limit(register_current_user(authorization).user # {},
                   "register", caller_key, register_limit)
        r == route_register(authorization, user, salt)
    IN  IF ~w.admitted
        THEN [resp |-> RateLimitExceeded, users |-> users,
              nextUserId |-> nextUserId, storage |-> w.storage]
        ELSE [resp |-> r.resp, users |-> r.users,
              nextUserId |-> r.nextUserId, storage |-> w.storage]

\* login has no dependency that can answer the request
endpoint_login(caller_key, username, password) ==
    LET w == limit(TRUE, "login", caller_key, login_limit)
        r == route_login(username, password)
    IN  IF ~w.admitted
        THEN [resp |-> RateLimitExceeded, token |-> {}, storage |-> w.storage]
        ELSE [resp |-> r.resp, token |-> r.token, storage |-> w.storage]

endpoint_create_asset(caller_key, authorization, asset) ==
    LET w == limit(require_role(create_asset_roles, authorization).user # {},
                   "create_asset", caller_key, create_asset_limit)
        r == route_create_asset(authorization, asset)
    IN  IF ~w.admitted
        THEN [resp |-> RateLimitExceeded, assets |-> assets, storage |-> w.storage]
        ELSE [resp |-> r.resp, assets |-> r.assets, storage |-> w.storage]

-----------------------------------------------------------------------------
(* The state machine *)

NoCall == [fn |-> "none"]

\* scripts/seed_admin.py has created the first admin; the Assets table holds
\* two rows; the limiter is switched off, as the test client does
Init ==
    /\ users = {SeedAdmin}
    /\ nextUserId = 2
    /\ tokens = {}
    /\ now = StartTime
    /\ assets = {SeedAsset, SeedAsset2}
    /\ limiter = [enabled |-> FALSE, storage |-> EmptyStorage]
    /\ call = NoCall
    /\ inflight = [c \in Clients |-> Idle]

\* the same with the limiter as app/core/limiter.py builds it
InitLimiter ==
    /\ users = {SeedAdmin}
    /\ nextUserId = 2
    /\ tokens = {}
    /\ now = StartTime
    /\ assets = {SeedAsset, SeedAsset2}
    /\ limiter = [enabled |-> TRUE, storage |-> EmptyStorage]
    /\ call = NoCall
    /\ inflight = [c \in Clients |-> Idle]

RegisterWith(creates) ==
    \E k \in CallerKeys, a \in Authorizations, user \in creates, salt \in Salts :
        LET r == endpoint_register(k, a, user, salt)
        IN  /\ r.nextUserId <= MaxUserId + 1
            /\ users' = r.users
            /\ nextUserId' = r.nextUserId
            /\ limiter' = [limiter EXCEPT !.storage = r.storage]
            /\ UNCHANGED <<tokens, now, assets, call, inflight>>

Register == RegisterWith(UserCreates)

Login ==
    \E k \in CallerKeys, username \in LoginNames, password \in Passwords :
        LET r == endpoint_login(k, username, password)
        IN  /\ Cardinality(tokens \cup r.token) <= MaxTokens
            /\ tokens' = tokens \cup r.token
            /\ limiter' = [limiter EXCEPT !.storage = r.storage]
            /\ UNCHANGED <<users, nextUserId, now, assets, call, inflight>>

GetCurrentUserInfo ==
    \E a \in Authorizations :
        /\ route_get_current_user_info(a).resp.status \in {200, 401, 403}
        /\ UNCHANGED vars

\* DELETE /auth/users/{user_id} is dispatched to the first handler registered
\* for it
DeleteUser ==
    \E k \in CallerKeys, a \in Authorizations, user_id \in UserIds :
        LET w == limit(delete_user_current_user(a).user # {},
                       "delete_user", k, delete_user_limit)
            r == route_delete_user(a, user_id)
        IN  /\ users' = IF w.admitted THEN r.users ELSE users
            /\ limiter' = [limiter EXCEPT !.storage = w.storage]
            /\ UNCHANGED <<nextUserId, tokens, now, assets, call, inflight>>

GetUsers ==
    \E a \in Authorizations :
        /\ route_get_users(a).resp.status \in {200, 401, 403}
        /\ UNCHANGED vars

UpdateUserWith(updates) ==
    \E k \in CallerKeys, a \in Authorizations, user_id \in UserIds,
       user_update \in updates :
        LET w == limit(require_role(update_user_roles, a).user # {},
                       "update_user", k, update_user_limit)
            r == route_update_user(a, user_id, user_update)
        IN  /\ users' = IF w.admitted THEN r.users ELSE users
            /\ limiter' = [limiter EXCEPT !.storage = w.storage]
            /\ UNCHANGED <<nextUserId, tokens, now, assets, call, inflight>>

UpdateUser == UpdateUserWith(UserUpdates)

GetAssets ==
    \E k \in CallerKeys :
        LET w == limit(TRUE, "get_assets", k, get_assets_limit)
        IN  /\ w.admitted => route_get_assets.resp.status = 200
            /\ limiter' = [limiter EXCEPT !.storage = w.storage]
            /\ UNCHANGED <<users, nextUserId, tokens, now, assets, call, inflight>>

GetAsset ==
    \E k \in CallerKeys, a \in Authorizations, asset_id \in AssetIds :
        LET w == limit(get_asset_current_user(a).user # {},
                       "get_asset", k, get_asset_limit)
        IN  /\ route_get_asset(a, asset_id).resp.status \in {200, 401, 403, 404}
            /\ limiter' = [limiter EXCEPT !.storage = w.storage]
            /\ UNCHANGED <<users, nextUserId, tokens, now, assets, call, inflight>>

CreateAsset ==
    \E k \in CallerKeys, a \in Authorizations, asset \in AssetCreates :
        LET r == endpoint_create_asset(k, a, asset)
        IN  /\ assets' = r.assets
            /\ limiter' = [limiter EXCEPT !.storage = r.storage]
            /\ UNCHANGED <<users, nextUserId, tokens, now, call, inflight>>

UpdateAsset ==
    \E k \in CallerKeys, a \in Authorizations, asset_id \in AssetIds,
       asset_update \in AssetUpdates :
        LET w == limit(require_role(update_asset_roles, a).user # {},
                       "update_asset", k, update_asset_limit)
            r == route_update_asset(a, asset_id, asset_update)
        IN  /\ assets' = IF w.admitted THEN r.assets ELSE assets
            /\ limiter' = [limiter EXCEPT !.storage = w.storage]
            /\ UNCHANGED <<users, nextUserId, tokens, now, call, inflight>>

DeleteAsset ==
    \E k \in CallerKeys, a \in Authorizations, asset_id \in AssetIds :
        LET w == limit(require_role(delete_asset_roles, a).user # {},
                       "delete_asset", k, delete_asset_limit)
            r == route_delete_asset(a, asset_id)
        IN  /\ assets' = IF w.admitted THEN r.assets ELSE assets
            /\ limiter' = [limiter EXCEPT !.storage = w.storage]
            /\ UNCHANGED <<users, nextUserId, tokens, now, call, inflight>>

\* a minute passes
Tick ==
    /\ now < StartTime + MaxElapsed
    /\ now' = now + 1
    /\ UNCHANGED <<users, nextUserId, tokens, assets, limiter, call, inflight>>

\* the routes of app/api/routes/auth.py
Next ==
    \/ Register
    \/ Login
    \/ GetCurrentUserInfo
    \/ DeleteUser
    \/ GetUsers
    \/ UpdateUser

Spec == Init /\ [][Next]_vars

\* the routes of app/api/routes/assets.py, with login and the user update
\* that give the callers their roles
NextAssets ==
    \/ Login
    \/ UpdateUser
    \/ GetAssets
    \/ GetAsset
    \/ CreateAsset
    \/ UpdateAsset
    \/ DeleteAsset

SpecAssets == Init /\ [][NextAssets]_vars

ReadRoot ==
    /\ route_read_root.resp.status = 200
    /\ UNCHANGED vars

HealthCheck ==
    /\ route_health_check.resp.status = 200
    /\ UNCHANGED vars

\* the application with its limiter: a limited public route, a limited
\* protected route, the routes without a quota, and the clock
NextLimiter ==
    \/ Login
    \/ CreateAsset
    \/ GetCurrentUserInfo
    \/ GetUsers
    \/ ReadRoot
    \/ HealthCheck
    \/ Tick

SpecLimiter == InitLimiter /\ [][NextLimiter]_vars

\* register with the request test_register_user_as_admin sends
RegisterStaff ==
    RegisterWith({[username |-> "alice", password |-> SeedPassword,
                   role |-> STAFF, is_active |-> TRUE]})

\* update_user switching an account off or on
SetActive == UpdateUserWith({[is_active |-> b] : b \in BOOLEAN})

\* login, the user management and the passing of time: tokens outlive the
\* changes made to their principals
NextTokens ==
    \/ RegisterStaff
    \/ Login
    \/ GetCurrentUserInfo
    \/ DeleteUser
    \/ SetActive
    \/ Tick

SpecTokens == Init /\ [][NextTokens]_vars

-----------------------------------------------------------------------------
(* app/core/security.py called directly, as tests and scripts do.  call is *)
(* the last call: its arguments and what it returned or raised.            *)

\* longest lifetime handed to create_access_token, in minutes
MaxTtl == 2

A(n) == [i \in 1 .. n |-> 97]

\* 71 letters and e-acute, 71 letters and e-grave: 72 characters, 73 bytes,
\* the same first 72 bytes
SecretAcute == A(71) \o <<233>>
SecretGrave == A(71) \o <<232>>
\* 72 letters; the same and one more; a change at the 71st byte
Secret72 == A(72)
Secret73 == A(72) \o <<98>>
SecretOther == A(70) \o <<98, 233>>

Secrets ==
    {SecretAcute, SecretGrave, Secret72, Secret73, SecretOther,
     SeedPassword, OtherPassword}

\* the data login puts in a token
TokenData == [sub : Usernames, user_id : 1 .. MaxUserId, role : UserRole]

\* Optional[timedelta]: <<>> is None, <<0>> is timedelta(0)
ExpiresDeltas == {<<>>} \cup {<<d>> : d \in 0 .. MaxTtl}

GetPasswordHash ==
    \E plain_password \in Secrets, salt \in Salts :
        /\ call' = [fn |-> "get_password_hash",
                    plain_password |-> plain_password,
                    hashed |-> get_password_hash(plain_password, salt)]
        /\ UNCHANGED <<users, nextUserId, tokens, now, assets, limiter, inflight>>

\* against the hash just made, or against a value that is no hash
VerifyPassword ==
    \E plain_password \in Secrets,
       hashed_password \in {MalformedHash}
                            \cup (IF call.fn = "get_password_hash"
                                  THEN {call.hashed} ELSE {}) :
        /\ call' = [fn |-> "verify_password",
                    plain_password |-> plain_password,
                    hashed_password |-> hashed_password,
                    hashed_from |-> IF hashed_password = MalformedHash
                                    THEN {} ELSE {call.plain_password},
                    raised |-> verify_password_error(plain_password, hashed_password),
                    returned |-> verify_password(plain_password, hashed_password)]
        /\ UNCHANGED <<users, nextUserId, tokens, now, assets, limiter, inflight>>

CreateAccessToken ==
    \E data \in TokenData, expires_delta \in ExpiresDeltas :
        /\ call' = [fn |-> "create_access_token",
                    data |-> data, expires_delta |-> expires_delta,
                    issued_at |-> now,
                    token |-> create_access_token(data, expires_delta, now)]
        /\ UNCHANGED <<users, nextUserId, tokens, now, assets, limiter, inflight>>

\* of the token just made, of a forged or of a malformed one
DecodeAccessToken ==
    \E token \in {ForgedToken, MalformedToken}
                  \cup (IF call.fn = "create_access_token"
                        THEN {call.token} ELSE {}) :
        /\ call' = [fn |-> "decode_access_token",
                    token |-> token,
                    issued |-> IF token \in {ForgedToken, MalformedToken}
                               THEN {} ELSE {call},
                    decoded_at |-> now,
                    returned |-> decode_access_token(token, now)]
        /\ UNCHANGED <<users, nextUserId, tokens, now, assets, limiter, inflight>>

NextSecurity ==
    \/ GetPasswordHash
    \/ VerifyPassword
    \/ CreateAccessToken
    \/ DecodeAccessToken
    \/ Tick

SpecSecurity == Init /\ [][NextSecurity]_vars

-----------------------------------------------------------------------------
(* Requests served side by side.  A handler that reads the store and       *)
(* writes it later runs in two steps; another thread may run between them. *)

\* register once every check up to the existence check of create_user has
\* passed: the row is about to be added
RegisterCheck(c) ==
    \E k \in CallerKeys, a \in Authorizations, user \in UserCreates, salt \in Salts :
        LET r == endpoint_register(k, a, user, salt)
        IN  /\ inflight[c] = Idle
            /\ r.resp.status = 201
            /\ r.nextUserId <= MaxUserId + 1
            /\ inflight' = [inflight EXCEPT ![c] =
                               [op |-> "create_user", user |-> user, salt |-> salt]]
            /\ limiter' = [limiter EXCEPT !.storage = r.storage]
            /\ UNCHANGED <<users, nextUserId, tokens, now, assets, call>>

\* the commit of create_user and what register answers
RegisterCommit(c) ==
    /\ inflight[c].op = "create_user"
    /\ LET r == register_commit(inflight[c].user, inflight[c].salt)
       IN  /\ users' = r.users
           /\ nextUserId' = r.nextUserId
    /\ inflight' = [inflight EXCEPT ![c] = Idle]
    /\ UNCHANGED <<tokens, now, assets, limiter, call>>

NextRace ==
    \/ Login
    \/ \E c \in Clients : RegisterCheck(c)
    \/ \E c \in Clients : RegisterCommit(c)

SpecRace == Init /\ [][NextRace]_vars

\* login up to the read of the window of its key
LoginArrive(c) ==
    \E k \in CallerKeys, username \in LoginNames, password \in Passwords :
        /\ limiter.enabled
        /\ inflight[c] = Idle
        /\ window_lock_free(<<"login", k>>)
        /\ inflight' = [inflight EXCEPT ![c] =
                           [op |-> "admit", key |-> <<"login", k>>,
                            hits |-> limiter.storage[<<"login", k>>],
                            username |-> username, password |-> password]]
        /\ UNCHANGED <<users, nextUserId, tokens, now, assets, limiter, call>>

\* the write of the window, and the handler if the request is admitted
LoginProceed(c) ==
    /\ inflight[c].op = "admit"
    /\ LET w == admit_write(limiter.storage, inflight[c].key, inflight[c].hits,
                            login_limit, now)
           r == route_login(inflight[c].username, inflight[c].password)
           token == IF w.admitted THEN r.token ELSE {}
       IN  /\ Cardinality(tokens \cup token) <= MaxTokens
           /\ tokens' = tokens \cup token
           /\ limiter' = [limiter EXCEPT !.storage = w.storage]
    /\ inflight' = [inflight EXCEPT ![c] = Idle]
    /\ UNCHANGED <<users, nextUserId, now, assets, call>>

NextConcurrent ==
    \/ \E c \in Clients : LoginArrive(c)
    \/ \E c \in Clients : LoginProceed(c)
    \/ Tick

SpecConcurrent == InitLimiter /\ [][NextConcurrent]_vars

-----------------------------------------------------------------------------
(* app/crud/user.py authenticate_user called over a store that may be out  *)
(* of reach                                                                *)

AuthenticateUser ==
    \E available \in BOOLEAN, username \in LoginNames, password \in Passwords :
        LET raised == authenticate_user_error(available, users, username, password)
        IN  /\ call' = [fn |-> "authenticate_user",
                        available |-> available,
                        username |-> username, password |-> password,
                        raised |-> raised,
                        returned |-> IF raised = ""
                                     THEN {authenticate_user(users, username, password)}
                                     ELSE {},
                        login |-> login_over(available, username, password).resp]
            /\ UNCHANGED <<users, nextUserId, tokens, now, assets, limiter, inflight>>

NextResolver ==
    \/ RegisterStaff
    \/ Login
    \/ SetActive
    \/ AuthenticateUser

SpecResolver == Init /\ [][NextResolver]_vars

-----------------------------------------------------------------------------
(* Properties.  A caller is named by what it holds: a token that the server *)
(* issued and that has not expired names the stored user of its subject.   *)

ValidTokens == {t \in tokens : t.payload[1].exp >= now}

Caller(a) ==
    IF a.scheme = "Bearer" /\ a.token \in ValidTokens
    THEN {u \in users : u.username = a.token.payload[1].sub}
    ELSE {}

LoginRequests == LoginNames \X Passwords

HashOf(u, password) ==
    \E salt \in Salts : u.hashed_password = get_password_hash(password, salt)

\* C1: authenticate_user(name, secret) returns the stored user if and only if
\* a user with that name exists, the secret is the one its hash was made from
\* and the user is active; otherwise it returns None and login answers
\* without a token.
C1_AuthenticateIffValidActive ==
    \A q \in LoginRequests :
        LET matching == {u \in users : /\ u.username = q[1]
                                       /\ HashOf(u, q[2])
                                       /\ u.is_active}
            r == route_login(q[1], q[2])
        IN  /\ authenticate_user(users, q[1], q[2]) = matching
            /\ matching = {} => r.token = {} /\ r.resp.status # 200
            /\ matching # {} =>
                 /\ r.resp.status = 200
                 /\ \A t \in r.token : t.payload[1].sub = q[1] /\ t.sig = SECRET_KEY
                 /\ r.token # {}

\* a login has issued a token, and the store holds an active and an inactive
\* user
C1_Witness ==
    /\ tokens # {}
    /\ \E u, v \in users : u.is_active /\ ~v.is_active

UnknownName(q) == \A u \in users : u.username # q[1]
WrongPassword(q) == \E u \in users : u.username = q[1] /\ ~HashOf(u, q[2])
InactiveAccount(q) ==
    \E u \in users : u.username = q[1] /\ HashOf(u, q[2]) /\ ~u.is_active

\* C2: a login that fails for an unknown name, for a wrong password or for an
\* inactive account is answered with the same status, detail and headers.
C2_LoginFailuresIndistinguishable ==
    \A q1, q2 \in LoginRequests :
        /\ UnknownName(q1) \/ WrongPassword(q1) \/ InactiveAccount(q1)
        /\ UnknownName(q2) \/ WrongPassword(q2) \/ InactiveAccount(q2)
        => /\ route_login(q1[1], q1[2]).resp = route_login(q2[1], q2[2]).resp
           /\ route_login(q1[1], q1[2]).resp.status = 401

\* the three failures are all possible in one state, after a registration
C2_Witness ==
    /\ nextUserId > 2
    /\ \E q1, q2, q3 \in LoginRequests :
          UnknownName(q1) /\ WrongPassword(q2) /\ InactiveAccount(q3)

\* C3: a deletion request for the caller's own id is denied whatever the
\* caller's role, and leaves the users table as it is.
C3_SelfDeletionDenied ==
    \A a \in Authorizations : \A u \in Caller(a) :
        LET r == route_delete_user(a, u.id)
        IN  /\ r.resp.status \in {400, 403}
            /\ r.users = users

\* an active admin holds a valid token, a user was registered and deleted,
\* and the admin's request for its own id is answered 400
C3_Witness ==
    /\ nextUserId > 2
    /\ Cardinality(users) = 1
    /\ \E a \in Authorizations : \E u \in Caller(a) :
          /\ u.role = ADMIN /\ u.is_active
          /\ route_delete_user(a, u.id).resp.status = 400

ActiveCaller(a) == {u \in Caller(a) : u.is_active}

\* what the three asset mutations answer and leave, over every request input
CreateAssetResults(a) == {route_create_asset(a, asset) : asset \in AssetCreates}
UpdateAssetResults(a) ==
    {route_update_asset(a, i, upd) : i \in AssetIds, upd \in AssetUpdates}
DeleteAssetResults(a) == {route_delete_asset(a, i) : i \in AssetIds}

GatedBy(results, role, required) ==
    \A r \in results :
        /\ r.resp.status \notin {401, 403} <=> role \in required
        /\ role \notin required => r.resp.status = 403 /\ r.assets = assets

ProtectedResults(a) ==
    {[status |-> r.resp.status, users |-> r.users, nextUserId |-> r.nextUserId,
      assets |-> assets] :
        r \in {route_register(a, user, salt) : user \in UserCreates, salt \in Salts}}
    \cup {[status |-> r.resp.status, users |-> users, nextUserId |-> nextUserId,
           assets |-> assets] :
        r \in {route_get_current_user_info(a), route_get_users(a)}
              \cup {route_get_asset(a, i) : i \in AssetIds}}
    \cup {[status |-> r.resp.status, users |-> r.users, nextUserId |-> nextUserId,
           assets |-> assets] :
        r \in {route_delete_user(a, i) : i \in UserIds}
              \cup {route_update_user(a, i, upd) : i \in UserIds, upd \in UserUpdates}}
    \cup {[status |-> r.resp.status, users |-> users, nextUserId |-> nextUserId,
           assets |-> r.assets] :
        r \in CreateAssetResults(a) \cup UpdateAssetResults(a) \cup DeleteAssetResults(a)}

\* C5: a request with a valid token of an inactive principal is denied on
\* every protected operation, whatever the principal's role, and changes
\* nothing.
C5_InactiveDenied ==
    \A a \in Authorizations : \A u \in Caller(a) :
        ~u.is_active =>
            \A r \in ProtectedResults(a) :
                /\ r.status \in {401, 403}
                /\ r.users = users /\ r.nextUserId = nextUserId /\ r.assets = assets

\* a valid token names an inactive principal whose role is Admin
C5_Witness ==
    \E a \in Authorizations : \E u \in Caller(a) :
        /\ ~u.is_active /\ u.role = ADMIN
        /\ route_register(a, [username |-> "alice", password |-> SeedPassword,
                              role |-> STAFF, is_active |-> TRUE], "salt1").resp.status = 403

\* statuses of the operations that require the role set `required`
RoleGatedStatuses(a, required) ==
    IF required = {ADMIN}
    THEN {r.resp.status :
            r \in {route_register(a, user, salt) : user \in UserCreates, salt \in Salts}
                  \cup {route_delete_user(a, i) : i \in UserIds}
                  \cup {route_get_users(a)}
                  \cup {route_update_user(a, i, upd) : i \in UserIds, upd \in UserUpdates}
                  \cup DeleteAssetResults(a)}
    ELSE IF required = {MANAGER, ADMIN}
    THEN {r.resp.status : r \in UpdateAssetResults(a)}
    ELSE {r.resp.status : r \in CreateAssetResults(a)}

C7_InactiveLoginDenied ==
    /\ [](\A u \in users : \A password \in Passwords :
            HashOf(u, password) =>
                LET r == route_login(u.username, password)
                IN  /\ u.is_active => r.resp.status = 200 /\ r.token # {}
                    /\ ~u.is_active => r.resp.status = 401 /\ r.token = {})
    /\ [][Login => users' = users /\ nextUserId' = nextUserId]_vars

\* a user that logged in has since been made inactive, and its login with
\* the correct password is answered 401
C7_Witness ==
    \E t \in tokens : \E u \in users :
        /\ u.username = t.payload[1].sub /\ u.id = t.payload[1].user_id
        /\ ~u.is_active
        /\ route_login(u.username, SeedPassword).resp.status = 401

\* C8 as stated: the request of a caller with a valid token for its own id is
\* answered 403 Forbidden.
C8_SelfDeletionForbidden ==
    \A a \in Authorizations : \A u \in Caller(a) :
        route_delete_user(a, u.id).resp.status = 403

\* C8 amended: the request of an active Admin for its own id is answered
\* 400 "Cannot delete your own account"; 403 is the answer to a caller that
\* is inactive or no Admin.
C8_SelfDeletionBadRequest ==
    \A a \in Authorizations : \A u \in Caller(a) :
        LET r == route_delete_user(a, u.id)
        IN  IF u.is_active /\ u.role = ADMIN
            THEN r.resp = Response(400, "Cannot delete your own account", NoHeaders)
            ELSE r.resp.status = 403

\* an active admin and an active caller of another role both hold valid tokens
C8_Witness ==
    /\ \E a \in Authorizations : \E u \in ActiveCaller(a) :
          u.role = ADMIN /\ route_delete_user(a, u.id).resp.status = 400
    /\ \E a \in Authorizations : \E u \in ActiveCaller(a) :
          u.role # ADMIN /\ route_delete_user(a, u.id).resp.status = 403

RegisterResults(a) ==
    {route_register(a, user, salt) : user \in UserCreates, salt \in Salts}

C10_UsernamesUnique ==
    /\ \A u, v \in users : u.username = v.username => u = v
    /\ \A user \in UserCreates : \A salt \in Salts :
          (\E u \in users : u.username = user.username) =>
              /\ create_user(users, nextUserId, user, salt).error # ""
              /\ create_user(users, nextUserId, user, salt).db = users
              /\ \A a \in Authorizations :
                    (\E c \in ActiveCaller(a) : c.role = ADMIN) =>
                        LET r == route_register(a, user, salt)
                        IN  r.resp.status = 400 /\ r.users = users

\* two users are stored and an active admin holds a valid token: its request
\* to register one of the two names again is answered 400
C10_Witness ==
    /\ Cardinality(users) = 2
    /\ \E a \in Authorizations : \E c \in ActiveCaller(a) :
          /\ c.role = ADMIN
          /\ \E r \in RegisterResults(a) : r.resp.status = 400

-----------------------------------------------------------------------------
(* The token codec *)

TtlOf(c) == IF Len(c.expires_delta) > 0 THEN c.expires_delta[1] ELSE 0

\* C11: decode_access_token of a token just returned by
\* create_access_token(claims, ttl), with ttl > 0 and the clock where it was,
\* returns the subject, the principal reference and the role that were issued.
C11_DecodeReturnsIssuedClaims ==
    call.fn = "decode_access_token" =>
        \A c \in call.issued :
            TtlOf(c) > 0 /\ call.decoded_at = c.issued_at =>
                /\ call.returned # {}
                /\ \A claims \in call.returned :
                      /\ claims.sub = c.data.sub
                      /\ claims.user_id = c.data.user_id
                      /\ claims.role = c.data.role

\* a token made with a lifetime of one minute, after the clock has moved, has
\* been decoded in the minute it was made
C11_Witness ==
    /\ call.fn = "decode_access_token"
    /\ now > StartTime
    /\ \E c \in call.issued :
          /\ TtlOf(c) = 1 /\ call.decoded_at = c.issued_at
          /\ call.returned = {[sub |-> c.data.sub, user_id |-> c.data.user_id,
                               role |-> c.data.role, exp |-> c.issued_at + 1]}

ExpiredAt(token, clock) == token.payload[1].exp < clock

\* C12 as stated: the failure of an expired token differs from the failure of
\* a token with a bad signature and of a malformed token.
C12_ExpiryCauseDistinct ==
    call.fn = "decode_access_token" =>
        \A c \in call.issued :
            ExpiredAt(c.token, call.decoded_at) =>
                /\ call.returned = {}
                /\ call.returned # decode_access_token(ForgedToken, call.decoded_at)
                /\ call.returned # decode_access_token(MalformedToken, call.decoded_at)

\* C12 amended: once the clock is past the expiry instant of a token
\* decode_access_token returns None for it, which is also what it returns for
\* a bad signature and for a malformed token; up to that instant it returns
\* the claims.
C12_ExpiredTokenFails ==
    call.fn = "decode_access_token" =>
        \A c \in call.issued :
            IF ExpiredAt(c.token, call.decoded_at)
            THEN /\ call.returned = {}
                 /\ call.returned = decode_access_token(ForgedToken, call.decoded_at)
                 /\ call.returned = decode_access_token(MalformedToken, call.decoded_at)
            ELSE call.returned = {c.token.payload[1]}

\* a token has been decoded after its expiry instant
C12_Witness ==
    /\ call.fn = "decode_access_token"
    /\ \E c \in call.issued :
          /\ ExpiredAt(c.token, call.decoded_at)
          /\ ~ExpiredAt(c.token, c.issued_at)
          /\ call.returned = {}

\* the headers a client may send without being authenticated: none, a token
\* that does not parse, a forged one, and every token that has expired
UnauthenticatedHeaders ==
    InvalidAuthorizations \cup {Bearer(t) : t \in {x \in tokens : ExpiredAt(x, now)}}

\* every protected operation with its request and its whole response
ProtectedResponses(a) ==
    {<<"register", user, route_register(a, user, salt).resp>> :
        user \in UserCreates, salt \in Salts}
    \cup {<<"me", 0, route_get_current_user_info(a).resp>>,
          <<"get_users", 0, route_get_users(a).resp>>}
    \cup {<<"delete_user", i, route_delete_user(a, i).resp>> : i \in UserIds}
    \cup {<<"update_user", <<i, upd>>, route_update_user(a, i, upd).resp>> :
            i \in UserIds, upd \in UserUpdates}
    \cup {<<"get_asset", i, route_get_asset(a, i).resp>> : i \in AssetIds}
    \cup {<<"create_asset", asset, route_create_asset(a, asset).resp>> :
            asset \in AssetCreates}
    \cup {<<"update_asset", <<i, upd>>, route_update_asset(a, i, upd).resp>> :
            i \in AssetIds, upd \in AssetUpdates}
    \cup {<<"delete_asset", i, route_delete_asset(a, i).resp>> : i \in AssetIds}

\* C13: on every protected operation a request without a token, with a
\* malformed token, with an expired token and with a token signed with
\* another key get the same response: status 401, the same detail, the same
\* headers.
C13_UnauthenticatedIdentical ==
    \A a \in UnauthenticatedHeaders :
        /\ ProtectedResponses(a) = ProtectedResponses(NoAuthorization)
        /\ \A x \in ProtectedResponses(a) : x[3].status = 401

\* a token that login issued has expired, and its request is answered as the
\* request without a token is
C13_Witness ==
    \E t \in tokens :
        /\ ExpiredAt(t, now)
        /\ route_get_current_user_info(Bearer(t)).resp =
              route_get_current_user_info(NoAuthorization).resp
        /\ route_get_current_user_info(Bearer(ForgedToken)).resp.status = 401

\* C14: a token that login issued verifies at every instant up to its expiry,
\* whatever has become of its principal in the users table.
C14_VerificationStateless ==
    \A t \in tokens : \A clock \in now .. t.payload[1].exp :
        decode_access_token(t, clock) = {t.payload[1]}

\* two unexpired tokens: the principal of one has been deleted, the principal
\* of the other disabled, and both tokens verify
C14_Witness ==
    \E t1, t2 \in tokens :
        /\ ~ExpiredAt(t1, now) /\ ~ExpiredAt(t2, now)
        /\ \A u \in users : u.username # t1.payload[1].sub
        /\ \E u \in users : u.username = t2.payload[1].sub /\ ~u.is_active
        /\ decode_access_token(t1, now) # {}
        /\ decode_access_token(t2, now) # {}

UpdateUserStatuses(a) ==
    {route_update_user(a, i, upd).resp.status : i \in UserIds, upd \in UserUpdates}

-----------------------------------------------------------------------------
(* The credential hasher *)

\* the first 72 bytes of a secret
FirstBytes(s) ==
    LET b == encode(s)
    IN  SubSeq(b, 1, IF Len(b) < 72 THEN Len(b) ELSE 72)

\* s[:72]
Slice72(s) == SubSeq(s, 1, IF Len(s) < 72 THEN Len(s) ELSE 72)

\* C16: a hash made from a secret verifies against exactly the secrets that
\* have the same first 72 bytes; so for a secret s of more than 72 bytes the
\* hash of s and the hash of s[:72] each verify against s and against s[:72].
C16_TruncationInvariant ==
    call.fn = "verify_password" =>
        \A s \in call.hashed_from :
            LET p == call.plain_password
            IN  /\ call.raised = ""
                /\ call.returned <=> FirstBytes(s) = FirstBytes(p)
                /\ Len(encode(s)) > 72 /\ p \in {s, Slice72(s)} => call.returned
                /\ Len(encode(p)) > 72 /\ s = Slice72(p) => call.returned

\* the hash of a secret of 73 bytes has been verified against its first 72
\* bytes, which are a secret of the set
C16_Witness ==
    /\ call.fn = "verify_password"
    /\ call.hashed_from = {Secret73}
    /\ call.plain_password = Slice72(Secret73)
    /\ call.plain_password # Secret73
    /\ call.returned

\* C17: verify_password never raises; for a stored value that is no hash it
\* returns false.
C17_VerifyNeverRaises ==
    call.fn = "verify_password" =>
        /\ call.raised = ""
        /\ call.hashed_password = MalformedHash => ~call.returned

-----------------------------------------------------------------------------
(* Request admission *)

\* the hits of an endpoint and a caller key in the window that is running
InWindow(endpoint, k) ==
    /\ limiter.storage[<<endpoint, k>>].count > 0
    /\ now < limiter.storage[<<endpoint, k>>].expiry

Admitted(endpoint, k) ==
    IF InWindow(endpoint, k) THEN limiter.storage[<<endpoint, k>>].count ELSE 0

\* C18: login admits 5 requests of one caller key in one window of a minute;
\* a request is answered Throttled exactly when 5 have been admitted in the
\* running window, and a request after the end of the window is admitted and
\* opens a new window.
C18_LimitPlusOneThrottled ==
    \A k \in CallerKeys : \A q \in LoginRequests :
        LET r == endpoint_login(k, q[1], q[2])
        IN  /\ Admitted("login", k) <= 5
            /\ r.resp = RateLimitExceeded <=> Admitted("login", k) = 5
            /\ Admitted("login", k) < 5 =>
                  /\ r.resp = route_login(q[1], q[2]).resp
                  /\ r.storage[<<"login", k>>].count = Admitted("login", k) + 1
            /\ ~InWindow("login", k) =>
                  r.storage[<<"login", k>>] = [count |-> 1, expiry |-> now + 1]

\* five logins were admitted in a window that has ended, and the next login
\* is admitted
C18_Witness ==
    \E k \in CallerKeys :
        /\ limiter.storage[<<"login", k>>].count = 5
        /\ limiter.storage[<<"login", k>>].expiry <= now
        /\ endpoint_login(k, "admin", SeedPassword).resp.status = 200

\* C19: on create_asset the admission check comes first: over quota every
\* request is answered Throttled, with a valid token or not, and under quota
\* every request is counted, with a valid token or not.
C19_AdmissionBeforeIdentity ==
    \A k \in CallerKeys : \A a \in Authorizations : \A asset \in AssetCreates :
        LET r == endpoint_create_asset(k, a, asset)
        IN  IF Admitted("create_asset", k) >= 20
            THEN r.resp = RateLimitExceeded
            ELSE r.storage[<<"create_asset", k>>].count
                    = Admitted("create_asset", k) + 1

Endpoints == LimitedEndpoints \cup UnlimitedEndpoints

-----------------------------------------------------------------------------
(* Requests served side by side *)

LiveCount(storage, key, clock) == live_hits(storage, key, clock).count

\* C21: requests to one rate-limited endpoint from one caller key that run
\* side by side lose no update of the quota counter: every admitted request
\* raises the counter of the live window by one, and the counter never
\* passes the quota, so at most `limit` requests of a window are admitted.
C21_NoLostUpdate ==
    /\ [](\A k \in CallerKeys :
            LiveCount(limiter.storage, <<"login", k>>, now) <= login_limit.amount)
    /\ [][\A c \in Clients :
            (/\ inflight[c].op = "admit"
             /\ inflight'[c] = Idle
             /\ admit_write(limiter.storage, inflight[c].key, inflight[c].hits,
                            login_limit, now).admitted)
            => LiveCount(limiter'.storage, inflight[c].key, now')
                   = LiveCount(limiter.storage, inflight[c].key, now) + 1]_vars

\* the request that takes the last place of a window is between its read
\* and its write
C21_Witness ==
    \E c \in Clients :
        /\ inflight[c].op = "admit"
        /\ LiveCount(limiter.storage, inflight[c].key, now) = login_limit.amount - 1
        /\ inflight[c].hits = limiter.storage[inflight[c].key]

\* C22: a request answered Throttled consumes no quota: the storage of the
\* limiter is after it what it was before it, the handler has not run, and
\* the status of the answer is neither that of Unauthenticated nor that of
\* Forbidden.
C22_ThrottledConsumesNothing ==
    \A k \in CallerKeys :
        /\ \A q \in LoginRequests :
              LET r == endpoint_login(k, q[1], q[2])
              IN  ~limit(TRUE, "login", k, login_limit).admitted =>
                      /\ r.storage = limiter.storage
                      /\ r.token = {}
                      /\ r.resp.status \notin
                             {Unauthenticated.resp.status, Forbidden("").resp.status}
        /\ \A a \in Authorizations : \A asset \in AssetCreates :
              LET r == endpoint_create_asset(k, a, asset)
              IN  ~limit(require_role(create_asset_roles, a).user # {},
                         "create_asset", k, create_asset_limit).admitted =>
                      /\ r.storage = limiter.storage
                      /\ r.assets = assets
                      /\ r.resp.status \notin
                             {Unauthenticated.resp.status, Forbidden("").resp.status}

\* the window of login is full and a login with the right password is
\* answered 429
C22_Witness ==
    \E k \in CallerKeys :
        /\ Admitted("login", k) = login_limit.amount
        /\ endpoint_login(k, "admin", SeedPassword).resp.status = 429
        /\ endpoint_login(k, "admin", SeedPassword).storage = limiter.storage

-----------------------------------------------------------------------------
(* The user lookup of authenticate_user over a store that may fail *)

\* C23 as stated: when the user lookup raises because the store is out of
\* reach, authenticate_user raises nothing and returns no principal.
C23_LookupFailureDenied ==
    (call.fn = "authenticate_user" /\ ~call.available) =>
        /\ call.raised = ""
        /\ call.returned = {{}}

\* C23 as the code has it: when the user lookup raises because the store is
\* out of reach, authenticate_user returns nothing: the exception of the
\* lookup leaves it, and login answers 500 and not the 401 of a denied login;
\* over a store in reach authenticate_user raises nothing.
C23_LookupFailureRaises ==
    call.fn = "authenticate_user" =>
        /\ ~call.available =>
              /\ call.raised = "OperationalError"
              /\ call.returned = {}
              /\ call.login.status = 500
        /\ call.available =>
              /\ call.raised = ""
              /\ Cardinality(call.returned) = 1
              /\ call.login.status \in {200, 401}

\* the store is out of reach while the right password of an active user is
\* presented
C23_Witness ==
    /\ call.fn = "authenticate_user"
    /\ ~call.available
    /\ authenticate_user(users, call.username, call.password) # {}
    /\ call.login.status = 500

-----------------------------------------------------------------------------
(* Asset store *)

\* the column that holds a field of the asset schemas
ColumnOf(field) == IF field = "type" THEN "asset_type" ELSE field

\* C24: create_asset stores and returns exactly one new asset: its id is the
\* id of no asset stored before, its fields (the type among them) are those
\* of the input, the other assets are unchanged, and get_asset with the new
\* id returns it.
C24_CreateStoresOne ==
    \A asset \in AssetCreates :
        LET c == create_asset(assets, next_asset_id, asset)
        IN  /\ c.error = ""
            /\ \E row \in c.asset :
                  /\ c.tbl = assets \cup {row}
                  /\ row.id \notin {a.id : a \in assets}
                  /\ \A f \in DOMAIN asset : row[ColumnOf(f)] = asset[f]
                  /\ get_asset(c.tbl, row.id) = {row}

\* C25: update_asset changes exactly the fields provided in the update (the
\* type among them): the other fields of the asset and all other assets are
\* unchanged; for an id that is not stored it returns None and changes
\* nothing.
C25_UpdateExactlyProvided ==
    \A i \in AssetIds : \A upd \in AssetUpdates :
        LET u == update_asset(assets, i, upd)
        IN  IF get_asset(assets, i) = {}
            THEN u.asset = {} /\ u.tbl = assets
            ELSE \E new \in u.asset :
                    LET old == the(get_asset(assets, i))
                    IN  /\ \A f \in DOMAIN upd : new[ColumnOf(f)] = upd[f]
                        /\ \A col \in AssetColumns \ {ColumnOf(f) : f \in DOMAIN upd} :
                              new[col] = old[col]
                        /\ u.tbl \ {new} = assets \ {old}
                        /\ get_asset(u.tbl, i) = {new}

-----------------------------------------------------------------------------
(* Lifetime of a token *)

\* C26: the expiry of a token is its time of issue plus the lifetime handed
\* to create_access_token, for every lifetime handed to it, zero included;
\* the configured default is used only when none is handed to it.
C26_ExpiryIsIssuePlusTtl ==
    call.fn = "create_access_token" =>
        call.token.payload[1].exp =
            call.issued_at + (IF Len(call.expires_delta) > 0
                              THEN call.expires_delta[1]
                              ELSE ACCESS_TOKEN_EXPIRE_MINUTES)

-----------------------------------------------------------------------------
(* Identity of a user record *)

\* C27: no operation changes the username or the id of an existing user:
\* from its creation to its deletion a record keeps both, and no two records
\* share an id.
C27_UsernameAndIdFixed ==
    /\ [](\A u \in users : \A v \in users : u.id = v.id => u = v)
    /\ [][\A u \in users : \A v \in users' :
            /\ u.id = v.id => u.username = v.username
            /\ u.username = v.username => u.id = v.id]_vars

\* the seeded admin has been updated, and a second user exists next to it
C27_Witness ==
    \E u \in users : \E v \in users :
        /\ u.id = 1 /\ u.username = "admin" /\ u.role # ADMIN
        /\ v.id = 2 /\ ~v.is_active

-----------------------------------------------------------------------------
(* The two handlers of DELETE /auth/users/{user_id} *)

\* C28: every handler registered for DELETE /auth/users/{user_id}, delete_user
\* and delete_user_by_id, rejects a request for the caller's own id: through
\* neither does the request of an Admin remove the record of that Admin.
C28_EveryHandlerRejectsSelf ==
    \A a \in Authorizations : \A u \in Caller(a) :
        /\ route_delete_user(a, u.id).resp.status # 204
        /\ u \in route_delete_user(a, u.id).users
        /\ route_delete_user_by_id(a, u.id).resp.status # 204
        /\ u \in route_delete_user_by_id(a, u.id).users

-----------------------------------------------------------------------------
(* Two registrations of one new username served side by side *)

\* the calls of create_user that have passed the existence check and have
\* not committed yet
Creating == {c \in Clients : inflight[c].op = "create_user"}

\* C29: when two calls of create_user with the same new username have both
\* passed the existence check before either commits, at most one user record
\* of that name exists afterwards, and the call that commits second is
\* answered by register with the 400 of a duplicate username.
C29_RaceLoserGets400 ==
    \A c \in Creating :
        LET r == register_commit(inflight[c].user, inflight[c].salt)
            name == inflight[c].user.username
        IN  /\ Cardinality({u \in r.users : u.username = name}) <= 1
            /\ get_user_by_username(users, name) # {} => r.resp.status = 400

-----------------------------------------------------------------------------
(* The last active Admin *)

ActiveAdmins(db) == {u \in db : u.role = ADMIN /\ u.is_active}

\* C30 as stated: after any sequence of register, update-user and
\* delete-user requests the store holds at least one active Admin.
C30_ActiveAdminRemains == ActiveAdmins(users) # {}

\* C30 as the code has it: a request that adds or removes a user record (a
\* register or a delete-user request) never leaves a store that held an
\* active Admin without one; an update-user request can, see
\* C30_ActiveAdminRemains.
C30_AddAndRemoveKeepAdmin ==
    [][(/\ ActiveAdmins(users) # {}
        /\ {u.id : u \in users} # {u.id : u \in users'})
       => ActiveAdmins(users') # {}]_vars

\* a user has been registered and deleted again, and an active Admin is there
C30_Witness ==
    /\ nextUserId > Cardinality(users) + 1
    /\ ActiveAdmins(users) # {}

====
